---- MODULE Spec2Model ----
(***************************************************************************)
(* Model of grimoirebots_fastapi/main.py: a FastAPI application object      *)
(* with ten route handlers, the pydantic models they take, and the one      *)
(* module-level lookup map `items`.                                         *)
(*                                                                          *)
(* Requests are in flight in a bounded number of slots.  A request is       *)
(* received (the framework validates it against the handler's declared      *)
(* parameter types and either rejects it or hands it to the handler), the   *)
(* handler runs (the handlers are `async def` bodies without an await, so   *)
(* each runs as one step of the event loop), and the reply is sent.         *)
(*                                                                          *)
(* Python floats are modelled by integers (an amount in some fixed unit);   *)
(* `str | None` and `float | None` by sequences of length at most one.      *)
(***************************************************************************)
EXTENDS Integers, Sequences, FiniteSets, TLC

VARIABLES items, st, req, resp

vars == <<items, st, req, resp>>

(* ------------------------------ bounds --------------------------------- *)

MaxInFlight == 2        \* requests handled concurrently
MaxAmount == 2          \* largest price / tax / weight sent by a client

Slots == 1..MaxInFlight

(* ------------------------- optional values ----------------------------- *)

None == <<>>
Some(v) == <<v>>
IsNone(o) == o = <<>>
Val(o) == o[1]

\* Python truthiness of a `float | None`: None and 0.0 are falsy.
truthy(o) == ~IsNone(o) /\ Val(o) # 0

\* The string of n characters "x" (built by doubling).
RECURSIVE Rep(_)
Rep(n) ==
    IF n = 0 THEN ""
    ELSE IF n % 2 = 0 THEN LET half == Rep(n \div 2) IN half \o half
    ELSE Rep(n - 1) \o "x"

(* --------------------------- data models ------------------------------- *)

ModelName == {"alexnet", "resnet", "lenet"}

max_length == 300
min_length == 3

Image(url, name) == [url |-> url, name |-> name]

Item(name, description, price, tax, tags, images) ==
    [name |-> name, description |-> description, price |-> price,
     tax |-> tax, tags |-> tags, images |-> images]

\* Item(name=..., price=...) with every other field at its declared default.
ItemDefaults(name, price) == Item(name, None, price, None, {}, None)

\* ValidItem with the ge=0 constraint on price left out.
ValidItem_no_ge(item) ==
    IsNone(item.description) \/ Len(Val(item.description)) <= max_length

\* Field constraints of Item: price ge=0, description max_length=300.
ValidItem(item) ==
    /\ item.price >= 0
    /\ IsNone(item.description) \/ Len(Val(item.description)) <= max_length

Offer(name, description, price, its) ==
    [name |-> name, description |-> description, price |-> price, items |-> its]

ValidOffer(offer) == \A i \in 1..Len(offer.items) : ValidItem(offer.items[i])

\* Query constraint of read_items: q is None or has at least 3 characters.
ValidQuery(q) == IsNone(q) \/ Len(Val(q)) >= min_length

(* ------------------------------ responses ------------------------------ *)

HTTP_201_CREATED == 201

\* A handler's return value, sent with the route's status code.
Reply_(code, body) == [status |-> code, body |-> body]
Ok(body) == Reply_(200, body)
HTTPException(status_code, detail) ==
    [status |-> status_code, body |-> [detail |-> detail]]

(* ------------------------------ handlers ------------------------------- *)

startup_items == [foo |-> "The Foo Wrestlers"]

root == Ok([message |-> "Hello World"])

create_index_weights(weights) == Ok(weights)

create_offer(offer) == Ok(offer)

create_multiple_images(images) == Ok(images)

\* read_items that uses the query to filter the list by name.
read_items_filtered(q) ==
    LET all == <<ItemDefaults("Portal Gun", 42), ItemDefaults("Plumbus", 32)>> IN
    Ok(IF IsNone(q) THEN all ELSE SelectSeq(all, LAMBDA i : i.name = Val(q)))

read_items(q) ==
    Ok(<<ItemDefaults("Portal Gun", 42), ItemDefaults("Plumbus", 32)>>)

\* read_item written with items.get(item_id): no 404 for a missing key.
read_item_get(its, item_id) ==
    Ok([item |-> IF item_id \in DOMAIN its THEN its[item_id] ELSE "None"])

read_item(its, item_id) ==
    IF item_id \notin DOMAIN its
    THEN HTTPException(404, "Item not found")
    ELSE Ok([item |-> its[item_id]])

\* get_model with the lenet branch testing for "resnet".
get_model_swapped(model_name) ==
    IF model_name = "alexnet"
    THEN Ok([model_name |-> model_name, message |-> "Deep Learning FTW!"])
    ELSE IF model_name = "resnet"
    THEN Ok([model_name |-> model_name, message |-> "LeCNN all the images"])
    ELSE Ok([model_name |-> model_name, message |-> "Have some residuals"])

get_model(model_name) ==
    IF model_name = "alexnet"
    THEN Ok([model_name |-> model_name, message |-> "Deep Learning FTW!"])
    ELSE IF model_name = "lenet"
    THEN Ok([model_name |-> model_name, message |-> "LeCNN all the images"])
    ELSE Ok([model_name |-> model_name, message |-> "Have some residuals"])

\* read_file that refuses absolute paths with an error of its own.
read_file_guarded(file_path) ==
    IF Len(file_path) > 0 /\ SubSeq(file_path, 1, 1) = "/"
    THEN HTTPException(400, "Absolute path")
    ELSE Ok([file_path |-> file_path])

read_file(file_path) == Ok([file_path |-> file_path])

\* item.dict(): the model's fields as a dictionary.
dict(item) ==
    [name |-> item.name, description |-> item.description, price |-> item.price,
     tax |-> item.tax, tags |-> item.tags, images |-> item.images]

\* create_item that stores the sum under the existing key "price".
create_item_overwrite(item) ==
    LET item_dict == dict(item) IN
    IF truthy(item.tax)
    THEN Reply_(HTTP_201_CREATED,
            [item_dict EXCEPT !.price = item.price + Val(item.tax)])
    ELSE Reply_(HTTP_201_CREATED, item_dict)

\* create_item that tests `item.tax is not None` instead of `item.tax`.
create_item_is_not_none(item) ==
    LET item_dict == dict(item) IN
    IF ~IsNone(item.tax)
    THEN Reply_(HTTP_201_CREATED,
            [price_with_tax |-> item.price + Val(item.tax)] @@ item_dict)
    ELSE Reply_(HTTP_201_CREATED, item_dict)

create_item(item) ==
    LET item_dict == dict(item) IN
    IF truthy(item.tax)
    THEN Reply_(HTTP_201_CREATED,
            [price_with_tax |-> item.price + Val(item.tax)] @@ item_dict)
    ELSE Reply_(HTTP_201_CREATED, item_dict)

update_item(item_id, item) == Ok([item_id |-> item_id, item |-> item])


(* ------------------------ requests a client sends ---------------------- *)

Descriptions == {None, Some(Rep(max_length)), Some(Rep(max_length + 1))}
Prices == {-1, 0, MaxAmount}
Taxes == {None, Some(0), Some(MaxAmount)}

grimoirebots == Image("https://github.com/grimoirebots", "Grimoirebots")
chaoss == Image("https://chaoss.community", "CHAOSS")

\* Items as a client may send them, valid or not: every price with every tax,
\* every description with every price, and one item with every field set.
RawItems ==
    {Item("Foo", None, p, t, {}, None) : p \in Prices, t \in Taxes}
    \cup {Item("Foo", d, p, None, {}, None) : d \in Descriptions, p \in Prices}
    \cup {Item("Bar", Some("A very nice Item"), 1, Some(1), {"rock", "metal"},
                Some(<<grimoirebots>>))}

UUIDs == {"3fa85f64-5717-4562-b3fc-2c963f66afa6"}

RootRequests == {[route |-> "root"]}

CreateIndexWeightsRequests ==
    {[route |-> "create_index_weights", weights |-> w] :
        w \in {<<>>, (1 :> MaxAmount), (2 :> 0) @@ (5 :> MaxAmount)}}

CreateOfferRequests ==
    {[route |-> "create_offer", offer |-> o] :
        o \in {Offer("Empty", None, MaxAmount, <<>>),
               Offer("Pair", Some("two items"), 0,
                     <<ItemDefaults("Foo", 0),
                       Item("Bar", None, MaxAmount, Some(MaxAmount), {"rock"}, None)>>),
               Offer("Bad", None, 1, <<ItemDefaults("Foo", -1)>>)}}

CreateMultipleImagesRequests ==
    {[route |-> "create_multiple_images", images |-> l] :
        l \in {<<>>, <<grimoirebots>>, <<chaoss, grimoirebots>>}}

ReadItemsRequests ==
    {[route |-> "read_items", q |-> q] :
        q \in {None, Some("ab"), Some("abc"), Some("Plumbus")}}

ReadItemRequests ==
    {[route |-> "read_item", item_id |-> k] : k \in {"foo", "Foo", "bar"}}

GetModelRequests ==
    {[route |-> "get_model", model_name |-> m] : m \in ModelName \cup {"vgg"}}

ReadFileRequests ==
    {[route |-> "read_file", file_path |-> f] :
        f \in {"home/johndoe/myfile.txt", "/etc/hosts"}}

CreateItemRequests == {[route |-> "create_item", item |-> i] : i \in RawItems}

UpdateItemRequests ==
    {[route |-> "update_item", item_id |-> u, item |-> i] : u \in UUIDs, i \in RawItems}

Requests ==
    RootRequests \cup CreateIndexWeightsRequests \cup CreateOfferRequests
    \cup CreateMultipleImagesRequests \cup ReadItemsRequests \cup ReadItemRequests
    \cup GetModelRequests \cup ReadFileRequests \cup CreateItemRequests
    \cup UpdateItemRequests

\* The framework's validation of a request against the handler's declared
\* parameter types.
Validates(r) ==
    CASE r.route = "create_offer" -> ValidOffer(r.offer)
      [] r.route = "read_items" -> ValidQuery(r.q)
      [] r.route = "get_model" -> r.model_name \in ModelName
      [] r.route = "create_item" -> ValidItem(r.item)
      [] r.route = "update_item" -> ValidItem(r.item)
      [] OTHER -> TRUE

(* ------------------------------- state --------------------------------- *)

NoReq == [route |-> "none"]
NoResp == [status |-> 0]

Init ==
    /\ items = startup_items
    /\ st = [s \in Slots |-> "idle"]
    /\ req = [s \in Slots |-> NoReq]
    /\ resp = [s \in Slots |-> NoResp]

\* A request arrives; validation rejects it or hands it to its handler.
Receive(s, r) ==
    /\ st[s] = "idle"
    /\ req' = [req EXCEPT ![s] = r]
    /\ st' = [st EXCEPT ![s] = IF Validates(r) THEN "pending" ELSE "rejected"]
    /\ UNCHANGED <<items, resp>>

Pending(s, route) == st[s] = "pending" /\ req[s].route = route

Finish(s, response) ==
    /\ st' = [st EXCEPT ![s] = "done"]
    /\ resp' = [resp EXCEPT ![s] = response]
    /\ UNCHANGED req

Root(s) ==
    /\ Pending(s, "root")
    /\ Finish(s, root)
    /\ UNCHANGED items

CreateIndexWeights(s) ==
    /\ Pending(s, "create_index_weights")
    /\ Finish(s, create_index_weights(req[s].weights))
    /\ UNCHANGED items

CreateOffer(s) ==
    /\ Pending(s, "create_offer")
    /\ Finish(s, create_offer(req[s].offer))
    /\ UNCHANGED items

CreateMultipleImages(s) ==
    /\ Pending(s, "create_multiple_images")
    /\ Finish(s, create_multiple_images(req[s].images))
    /\ UNCHANGED items

ReadItems(s) ==
    /\ Pending(s, "read_items")
    /\ Finish(s, read_items(req[s].q))
    /\ UNCHANGED items

\* ReadItem that remembers a missing key (items.setdefault) before the 404.
ReadItem_setdefault(s) ==
    /\ Pending(s, "read_item")
    /\ Finish(s, read_item(items, req[s].item_id))
    /\ items' = IF req[s].item_id \in DOMAIN items
                THEN items
                ELSE (req[s].item_id :> "") @@ items

\* ReadItem that takes the value out of the map (items.pop) when it is found.
ReadItem_pop(s) ==
    /\ Pending(s, "read_item")
    /\ Finish(s, read_item(items, req[s].item_id))
    /\ items' = [k \in DOMAIN items \ {req[s].item_id} |-> items[k]]

ReadItem(s) ==
    /\ Pending(s, "read_item")
    /\ Finish(s, read_item(items, req[s].item_id))
    /\ UNCHANGED items

GetModel(s) ==
    /\ Pending(s, "get_model")
    /\ Finish(s, get_model(req[s].model_name))
    /\ UNCHANGED items

ReadFile(s) ==
    /\ Pending(s, "read_file")
    /\ Finish(s, read_file(req[s].file_path))
    /\ UNCHANGED items

CreateItem(s) ==
    /\ Pending(s, "create_item")
    /\ Finish(s, create_item(req[s].item))
    /\ UNCHANGED items

UpdateItem(s) ==
    /\ Pending(s, "update_item")
    /\ Finish(s, update_item(req[s].item_id, req[s].item))
    /\ UNCHANGED items

\* The reply (or the validation error) is sent and the request is gone.
Respond(s) ==
    /\ st[s] \in {"done", "rejected"}
    /\ st' = [st EXCEPT ![s] = "idle"]
    /\ req' = [req EXCEPT ![s] = NoReq]
    /\ resp' = [resp EXCEPT ![s] = NoResp]
    /\ UNCHANGED items

Next ==
    \E s \in Slots :
        \/ \E r \in Requests : Receive(s, r)
        \/ Root(s)
        \/ CreateIndexWeights(s)
        \/ CreateOffer(s)
        \/ CreateMultipleImages(s)
        \/ ReadItems(s)
        \/ ReadItem(s)
        \/ GetModel(s)
        \/ ReadFile(s)
        \/ CreateItem(s)
        \/ UpdateItem(s)
        \/ Respond(s)

Spec == Init /\ [][Next]_vars

(* ------------------------------ properties ----------------------------- *)

Done(s, route) == st[s] = "done" /\ req[s].route = route

\* C1: read_item returns {"item": "The Foo Wrestlers"} for the key "foo" and
\* a 404 for every other key; each key gets exactly one of the two.
C1_ReadItemKnownOrNotFound ==
    \A s \in Slots :
        Done(s, "read_item") =>
            IF req[s].item_id = "foo"
            THEN resp[s] = [status |-> 200, body |-> [item |-> "The Foo Wrestlers"]]
            ELSE resp[s].status = 404

C1_Witness ==
    \E s, t \in Slots :
        /\ Done(s, "read_item") /\ req[s].item_id = "foo" /\ resp[s].status = 200
        /\ Done(t, "read_item") /\ req[t].item_id = "Foo" /\ resp[t].status = 404

ItemFields == {"name", "description", "price", "tax", "tags", "images"}

\* C2: the echo handlers return what they received: create_index_weights,
\* create_offer and create_multiple_images answer with the request body,
\* create_item with every field of the item unchanged, update_item with the
\* received item_id and item.
C2_EchoHandlersReturnInput ==
    \A s \in Slots :
        /\ Done(s, "create_index_weights") => resp[s].body = req[s].weights
        /\ Done(s, "create_offer") => resp[s].body = req[s].offer
        /\ Done(s, "create_multiple_images") => resp[s].body = req[s].images
        /\ Done(s, "create_item") =>
              \A f \in ItemFields :
                  f \in DOMAIN resp[s].body /\ resp[s].body[f] = req[s].item[f]
        /\ Done(s, "update_item") =>
              /\ resp[s].body.item_id = req[s].item_id
              /\ resp[s].body.item = req[s].item

C2_Witness ==
    \E s, t \in Slots :
        /\ Done(s, "create_item") /\ ~IsNone(req[s].item.images)
        /\ "price_with_tax" \in DOMAIN resp[s].body
        /\ Done(t, "create_offer") /\ Len(req[t].offer.items) = 2

\* C3: for every validated item whose tax is not null, the response of
\* create_item carries price_with_tax, equal to price + tax.
C3_PriceWithTaxWheneverTaxPresent ==
    \A s \in Slots :
        (Done(s, "create_item") /\ ~IsNone(req[s].item.tax)) =>
            /\ "price_with_tax" \in DOMAIN resp[s].body
            /\ resp[s].body.price_with_tax = req[s].item.price + Val(req[s].item.tax)

\* C4: get_model answers "Deep Learning FTW!" for alexnet, "LeCNN all the
\* images" for lenet and "Have some residuals" for resnet, and echoes the
\* requested model_name.
C4_GetModelMessages ==
    \A s \in Slots :
        Done(s, "get_model") =>
            /\ resp[s].status = 200
            /\ resp[s].body.model_name = req[s].model_name
            /\ req[s].model_name = "alexnet" => resp[s].body.message = "Deep Learning FTW!"
            /\ req[s].model_name = "lenet" => resp[s].body.message = "LeCNN all the images"
            /\ req[s].model_name = "resnet" => resp[s].body.message = "Have some residuals"
            /\ req[s].model_name \in {"alexnet", "lenet", "resnet"}

C4_Witness ==
    \E s, t \in Slots :
        /\ Done(s, "get_model") /\ req[s].model_name = "resnet"
        /\ Done(t, "get_model") /\ req[t].model_name = "lenet"

\* C5: the only error outcome is read_item on a key absent from items, which
\* is a 404 with detail "Item not found"; every other handled request, on any
\* route, ends without an error status.
C5_SingleErrorCase ==
    \A s \in Slots :
        st[s] = "done" =>
            IF req[s].route = "read_item" /\ req[s].item_id \notin DOMAIN items
            THEN resp[s] = [status |-> 404, body |-> [detail |-> "Item not found"]]
            ELSE resp[s].status \in {200, 201}

C5_Witness ==
    \E s, t \in Slots :
        /\ Done(s, "read_item") /\ req[s].item_id = "bar"
        /\ resp[s].body = [detail |-> "Item not found"]
        /\ Done(t, "read_file") /\ req[t].file_path = "/etc/hosts"

\* C6: after any sequence of requests, including ones that end in a 404, the
\* lookup map items still has its startup value.
C6_ItemsNeverMutated == items = [foo |-> "The Foo Wrestlers"]

C6_Witness ==
    \E s, t \in Slots :
        /\ Done(s, "read_item") /\ resp[s].status = 404
        /\ st[t] = "pending" /\ req[t].route = "read_item"
        /\ req[t].item_id = req[s].item_id

\* The route table: the response of the application to request r when the
\* lookup map is its.
Handle(its, r) ==
    CASE r.route = "root" -> root
      [] r.route = "create_index_weights" -> create_index_weights(r.weights)
      [] r.route = "create_offer" -> create_offer(r.offer)
      [] r.route = "create_multiple_images" -> create_multiple_images(r.images)
      [] r.route = "read_items" -> read_items(r.q)
      [] r.route = "read_item" -> read_item(its, r.item_id)
      [] r.route = "get_model" -> get_model(r.model_name)
      [] r.route = "read_file" -> read_file(r.file_path)
      [] r.route = "create_item" -> create_item(r.item)
      [] r.route = "update_item" -> update_item(r.item_id, r.item)

\* C7: under any interleaving of requests, the response to each request is
\* the response it gets when it is the only request the application has ever
\* handled, that is, when handled from the startup state.
C7_ResponseAsHandledAlone ==
    \A s \in Slots : st[s] = "done" => resp[s] = Handle(startup_items, req[s])

C7_Witness ==
    \E s, t \in Slots :
        /\ s # t
        /\ Done(s, "read_item") /\ Done(t, "read_item")
        /\ req[s].item_id = "foo" /\ req[t].item_id = "foo"
        /\ resp[s].status = 200 /\ resp[t].status = 200

WithinFieldConstraints(i) ==
    /\ i.price >= 0
    /\ i.description # <<>> => Len(i.description[1]) <= 300

C9_NoDerivedFieldWithoutTax ==
    \A s \in Slots :
        Done(s, "create_item") =>
            /\ (req[s].item.tax = <<>> \/ req[s].item.tax = <<0>>) =>
                  /\ "price_with_tax" \notin DOMAIN resp[s].body
                  /\ resp[s].body = req[s].item
            /\ "price_with_tax" \in DOMAIN resp[s].body =>
                  (req[s].item.tax # <<>> /\ req[s].item.tax # <<0>>)

C9_Witness ==
    \E s, t \in Slots :
        /\ Done(s, "create_item") /\ req[s].item.tax = <<0>>
        /\ Done(t, "create_item") /\ req[t].item.tax = <<>>

====
